---- MODULE Spec2Model ----
(***************************************************************************)
(* Model of brakecalculations.py: the synthetic brake test data generator  *)
(* (class BrakeTest) and the key-press driven plot controller (class       *)
(* BrakePlotting).                                                         *)
(*                                                                         *)
(* Python floats are IEEE-754 doubles.  The generator compares computed    *)
(* ramps against thresholds, so the rounding of every operation matters:   *)
(* a double is modelled as a 53-bit mantissa (a natural number held in     *)
(* base-2^14 limbs, least significant first) and a binary exponent, and    *)
(* each operation rounds to nearest, ties to even, as the hardware does.   *)
(* All doubles the generator computes before the noise step are >= 0.      *)
(***************************************************************************)
EXTENDS Integers, Sequences, FiniteSets, TLC

(***************************************************************************)
(* Bounds of the model.                                                    *)
(***************************************************************************)
\* BrakeTest is constructed with every sample count 0..MaxNTest.
MaxNTest == 17
\* np.random.rand() returns k / 2^RandBits, k in 0 .. 2^RandBits - 1.
RandBits == 2
\* np.random.normal(...) returns one of NoiseSeeds vectors of draws.
NoiseSeeds == 2
\* A draw of np.random.normal lies within MaxSigma standard deviations (the
\* generator's polar method reaches 8.4 in both draws of a pair).
MaxSigma == 8
\* The plot window receives at most MaxKeys key presses.
MaxKeys == 7

(***************************************************************************)
(* Natural numbers of any size: limbs in base 2^14, least significant      *)
(* first, no leading zero limb; <<>> is 0.                                 *)
(***************************************************************************)
Base == 2^14

RECURSIVE BNorm(_)
BNorm(a) ==
    IF a = <<>> THEN a
    ELSE IF a[Len(a)] = 0 THEN BNorm(SubSeq(a, 1, Len(a) - 1)) ELSE a

RECURSIVE BAddC(_, _, _)
BAddC(a, b, c) ==
    IF a = <<>> /\ b = <<>>
    THEN IF c = 0 THEN <<>> ELSE <<c>>
    ELSE LET x == IF a = <<>> THEN 0 ELSE Head(a)
             y == IF b = <<>> THEN 0 ELSE Head(b)
             s == x + y + c
         IN  <<s % Base>> \o BAddC(IF a = <<>> THEN a ELSE Tail(a),
                                   IF b = <<>> THEN b ELSE Tail(b),
                                   s \div Base)

BAdd(a, b) == BAddC(a, b, 0)

\* a - b - c for a >= b + c
RECURSIVE BSubB(_, _, _)
BSubB(a, b, c) ==
    IF a = <<>> THEN <<>>
    ELSE LET y == IF b = <<>> THEN 0 ELSE Head(b)
             d == Head(a) - y - c
         IN  <<d % Base>> \o BSubB(Tail(a),
                                   IF b = <<>> THEN b ELSE Tail(b),
                                   IF d < 0 THEN 1 ELSE 0)

BSub(a, b) == BNorm(BSubB(a, b, 0))

\* a * k + c for 0 <= k < 2^16
RECURSIVE BMulC(_, _, _)
BMulC(a, k, c) ==
    IF a = <<>>
    THEN IF c = 0 THEN <<>> ELSE <<c % Base>> \o BMulC(a, k, c \div Base)
    ELSE LET p == Head(a) * k + c
         IN  <<p % Base>> \o BMulC(Tail(a), k, p \div Base)

BMulSmall(a, k) == BNorm(BMulC(a, k, 0))

RECURSIVE BMul(_, _)
BMul(a, b) ==
    IF b = <<>> \/ a = <<>> THEN <<>>
    ELSE BNorm(BAdd(BMulSmall(a, Head(b)), <<0>> \o BMul(a, Tail(b))))

\* quotient and remainder of (r * Base^Len(a) + a) by d, for 0 < d < 2^16, r < d
RECURSIVE BDivR(_, _, _)
BDivR(a, d, r) ==
    IF a = <<>> THEN [q |-> <<>>, r |-> r]
    ELSE LET cur  == r * Base + a[Len(a)]
             rest == BDivR(SubSeq(a, 1, Len(a) - 1), d, cur % d)
         IN  [q |-> rest.q \o <<cur \div d>>, r |-> rest.r]

BDivSmall(a, d) == LET qr == BDivR(a, d, 0) IN [q |-> BNorm(qr.q), r |-> qr.r]

RECURSIVE IntBitLen(_)
IntBitLen(k) == IF k = 0 THEN 0 ELSE 1 + IntBitLen(k \div 2)

BBitLen(a) == IF a = <<>> THEN 0 ELSE 14 * (Len(a) - 1) + IntBitLen(a[Len(a)])

RECURSIVE BShl(_, _)
BShl(a, s) ==
    IF a = <<>> THEN a
    ELSE IF s >= 14 THEN <<0>> \o BShl(a, s - 14) ELSE BMulSmall(a, 2^s)

RECURSIVE BShr(_, _)
BShr(a, s) ==
    IF a = <<>> THEN a
    ELSE IF s >= 14 THEN BShr(Tail(a), s - 14) ELSE BDivSmall(a, 2^s).q

\* -1, 0, 1 as a < b, a = b, a > b
RECURSIVE BCmp(_, _)
BCmp(a, b) ==
    IF Len(a) # Len(b) THEN (IF Len(a) < Len(b) THEN -1 ELSE 1)
    ELSE IF a = <<>> THEN 0
    ELSE IF a[Len(a)] # b[Len(b)] THEN (IF a[Len(a)] < b[Len(b)] THEN -1 ELSE 1)
    ELSE BCmp(SubSeq(a, 1, Len(a) - 1), SubSeq(b, 1, Len(b) - 1))

BOdd(a) == a # <<>> /\ Head(a) % 2 = 1

(***************************************************************************)
(* Doubles >= 0: [m, e] is m * 2^e with m of exactly 53 bits; FZero is 0.  *)
(***************************************************************************)
FZero == [m |-> <<>>, e |-> 0]

\* The double nearest to big * 2^e (plus, with sticky, a fraction of one unit
\* of big that is not zero), ties to even.
FRound(big, e, sticky) ==
    LET L == BBitLen(big) IN
    IF L = 0 THEN FZero
    ELSE IF L <= 53 THEN [m |-> BShl(big, 53 - L), e |-> e - (53 - L)]
    ELSE LET s    == L - 53
             q    == BShr(big, s)
             rem  == BSub(big, BShl(q, s))
             half == BShl(<<1>>, s - 1)
             c    == BCmp(rem, half)
             up   == c > 0 \/ (c = 0 /\ (sticky \/ BOdd(q)))
             q2   == IF up THEN BAdd(q, <<1>>) ELSE q
         IN  IF BBitLen(q2) > 53
             THEN [m |-> BShr(q2, 1), e |-> e + s + 1]
             ELSE [m |-> q2, e |-> e + s]

\* float(k) for an int 0 <= k < 2^16
FromInt(k) == FRound(BMulSmall(<<1>>, k), 0, FALSE)

\* x * 2^j
FScale(x, j) == IF x = FZero THEN x ELSE [m |-> x.m, e |-> x.e + j]

\* x * y
FMul(x, y) ==
    IF x = FZero \/ y = FZero THEN FZero
    ELSE FRound(BMul(x.m, y.m), x.e + y.e, FALSE)

\* x / d for an integer 0 < d < 2^16 (every divisor of the program is one)
FDivInt(x, d) ==
    IF x = FZero THEN FZero
    ELSE LET qr == BDivSmall(BShl(x.m, 20), d)
         IN  FRound(qr.q, x.e - 20, qr.r # 0)

\* x + y
FAdd(x, y) ==
    IF x = FZero THEN y
    ELSE IF y = FZero THEN x
    ELSE LET hi == IF x.e >= y.e THEN x ELSE y
             lo == IF x.e >= y.e THEN y ELSE x
             d  == hi.e - lo.e
         IN  IF d > 60 THEN hi
             ELSE FRound(BAdd(BShl(hi.m, d), lo.m), lo.e, FALSE)

\* x < y
FLess(x, y) ==
    IF y = FZero THEN FALSE
    ELSE IF x = FZero THEN TRUE
    ELSE x.e < y.e \/ (x.e = y.e /\ BCmp(x.m, y.m) < 0)

FLeq(x, y) == ~FLess(y, x)

\* x - y for x >= y
FSub(x, y) ==
    IF y = FZero THEN x
    ELSE IF x = y THEN FZero
    ELSE LET d == x.e - y.e
         IN  IF d > 60 THEN x
             ELSE FRound(BSub(BShl(x.m, d), y.m), y.e, FALSE)

\* the decimal literal num/10^k written in the source, e.g. 3.7 = Lit(37, 10)
Lit(num, den) == FDivInt(FromInt(num), den)

\* long division by b # 0, continued over bits j .. 0 of one limb; st is the
\* quotient and the remainder so far
RECURSIVE BDivBits(_, _, _, _)
BDivBits(b, limb, j, st) ==
    IF j < 0 THEN st
    ELSE LET r2 == BNorm(BMulC(st.r, 2, (limb \div 2^j) % 2))
         IN  IF BCmp(r2, b) >= 0
             THEN BDivBits(b, limb, j - 1, [q |-> BNorm(BMulC(st.q, 2, 1)),
                                            r |-> BSub(r2, b)])
             ELSE BDivBits(b, limb, j - 1, [q |-> BNorm(BMulC(st.q, 2, 0)),
                                            r |-> r2])

\* quotient and remainder by b # 0 of the limbs of a from the n-th up
RECURSIVE BDivFrom(_, _, _)
BDivFrom(a, b, n) ==
    IF n > Len(a) THEN [q |-> <<>>, r |-> <<>>]
    ELSE BDivBits(b, a[n], 13, BDivFrom(a, b, n + 1))

BDivBig(a, b) == BDivFrom(a, b, 1)

\* x / y for y # 0
FDiv(x, y) ==
    IF x = FZero THEN FZero
    ELSE LET qr == BDivBig(BShl(x.m, 55), y.m)
         IN  FRound(qr.q, x.e - 55 - y.e, qr.r # <<>>)

\* integer square root, digit by digit: n steps from the even bit position
\* k down; st is the root so far and what is left of the number
RECURSIVE BSqrtBits(_, _, _)
BSqrtBits(st, k, n) ==
    IF n = 0 \/ k < 0 THEN st
    ELSE LET try == BAdd(st.s, BShl(<<1>>, k))
         IN  IF BCmp(st.r, try) >= 0
             THEN BSqrtBits([s |-> BAdd(BShr(st.s, 1), BShl(<<1>>, k)),
                             r |-> BSub(st.r, try)], k - 2, n - 1)
             ELSE BSqrtBits([s |-> BShr(st.s, 1), r |-> st.r], k - 2, n - 1)

\* the steps for the bit positions top, top - 2, ..., k, fourteen at a time
RECURSIVE BSqrtFrom(_, _, _)
BSqrtFrom(num, k, top) ==
    IF k > top THEN [s |-> <<>>, r |-> num]
    ELSE LET from == IF k + 26 > top THEN top ELSE k + 26
         IN  BSqrtBits(BSqrtFrom(num, k + 28, top), from, (from - k) \div 2 + 1)

\* np.sqrt(x)
FSqrt(x) ==
    IF x = FZero THEN FZero
    ELSE LET odd == x.e % 2 = 1
             big == BShl(x.m, IF odd THEN 55 ELSE 54)
             e   == IF odd THEN x.e - 55 ELSE x.e - 54
             top == BBitLen(big) - 1
             sr  == BSqrtFrom(big, 0, top - (top % 2))
         IN  FRound(sr.s, e \div 2, sr.r # <<>>)

(***************************************************************************)
(* Doubles of either sign: [neg, a] is -a or a; zero is never negative.    *)
(* NotFinite stands for nan and the infinities (x / 0).                     *)
(***************************************************************************)
Pos(x) == [neg |-> FALSE, a |-> x]

SZero == Pos(FZero)

NotFinite == [neg |-> TRUE, a |-> FZero]

\* float(k) for an int -2^16 < k < 2^16
SInt(k) ==
    IF k < 0 THEN [neg |-> TRUE, a |-> FromInt(0 - k)] ELSE Pos(FromInt(k))

SNeg(x) == IF x.a = FZero THEN x ELSE [neg |-> ~x.neg, a |-> x.a]

\* x + y
SAdd(x, y) ==
    IF x = NotFinite \/ y = NotFinite THEN NotFinite
    ELSE IF x.neg = y.neg THEN [neg |-> x.neg, a |-> FAdd(x.a, y.a)]
    ELSE IF x.a = y.a THEN SZero
    ELSE IF FLess(y.a, x.a) THEN [neg |-> x.neg, a |-> FSub(x.a, y.a)]
    ELSE [neg |-> y.neg, a |-> FSub(y.a, x.a)]

\* x - y
SSub(x, y) == IF y = NotFinite THEN NotFinite ELSE SAdd(x, SNeg(y))

\* x * y
SMul(x, y) ==
    IF x = NotFinite \/ y = NotFinite THEN NotFinite
    ELSE IF x.a = FZero \/ y.a = FZero THEN SZero
    ELSE [neg |-> x.neg # y.neg, a |-> FMul(x.a, y.a)]

\* x / y
SDiv(x, y) ==
    IF x = NotFinite \/ y = NotFinite \/ y.a = FZero THEN NotFinite
    ELSE IF x.a = FZero THEN SZero
    ELSE [neg |-> x.neg # y.neg, a |-> FDiv(x.a, y.a)]

\* x < y
SLess(x, y) ==
    IF x.neg /\ y.neg THEN FLess(y.a, x.a)
    ELSE IF x.neg THEN TRUE
    ELSE IF y.neg THEN FALSE
    ELSE FLess(x.a, y.a)

(***************************************************************************)
(* State.  python is the interpreter major version the script runs under   *)
(* (2 or 3: "/" on two ints and round() differ; under Python 2 round()     *)
(* returns a float, which the NumPy of that time accepts as an index); the *)
(* other variables of the first group are the fields of the BrakeTest      *)
(* object, t_cutoff being Unset until generate_data assigns it, pc the     *)
(* position inside generate_data and clip_branch the branch its cut-off    *)
(* step took.                                                              *)
(* A sample is [v, z]: the double v plus the noise sqrt(v) * std * z,      *)
(* where z is the standard normal draw (0 before the noise step).  Arrays  *)
(* are functions on 0 .. n_test - 1, as in Python.                         *)
(***************************************************************************)
VARIABLES python, n_test, n_roll, force_delay, press_k, force_k, roll_res,
          t_axis, press_axis, force_axis, t_cutoff, pc, clip_branch

brkt == <<python, n_test, n_roll, force_delay, press_k, force_k, roll_res,
          t_axis, press_axis, force_axis, t_cutoff, pc, clip_branch>>

(***************************************************************************)
(* The BrakePlotting object and its figure.  status and cease_anim are     *)
(* Unset until first assigned; lin_fit is <<>> until plot_calc_6bar      *)
(* assigns it and then <<w>>, standing for the coefficients np.polyfit     *)
(* returns for the samples of window w.  Of the two axes (axs[0] is ax1,  *)
(* axs[1] its twin ax2) the model keeps the title of ax1, the labels of    *)
(* the lines drawn on each, and whether ax2 is visible; has_plot says that *)
(* create_plot has stored fig and axs.  keys counts the key presses        *)
(* handled so far.                                                         *)
(***************************************************************************)
VARIABLES status, has_plot, ax1_title, ax1_lines, ax2_lines, ax2_visible,
          cease_anim, lin_fit, keys

brkp == <<status, has_plot, ax1_title, ax1_lines, ax2_lines, ax2_visible,
          cease_anim, lin_fit, keys>>

(***************************************************************************)
(* The animations and what the handlers did to the figure.  anims holds    *)
(* the FuncAnimation objects whose timer is running, in the order in which *)
(* their timers expire next, each one                                      *)
(*   [stage: the status its update_lines compares with,                    *)
(*    born: the number of the key press whose handler created it,          *)
(*    frames: the length of its frame sequence,                            *)
(*    next: the frame number its next timer callback passes,               *)
(*    second_time: the closure variable of plot_calc_z (Unset elsewhere)]. *)
(* shown is the number of samples the                                      *)
(* animated lines on the axes show (Unset when there is none), drawn the   *)
(* drawing steps made on the axes since they were last cleared, in order,  *)
(* each with the animation that made it.  fit_log lists the assignments    *)
(* and the reads of self.lin_fit, stdout the texts printed,                *)
(* reset_outcome how a call of reset_plot made by a client ended           *)
(* ("returned", or the exception that left it), and last_stop the          *)
(* animation (by born) whose update_lines last raised StopIteration.       *)
(***************************************************************************)
VARIABLES anims, shown, drawn, fit_log, stdout, reset_outcome, last_stop

brka == <<anims, shown, drawn, fit_log, stdout, reset_outcome, last_stop>>

(***************************************************************************)
(* The numbers the two calculation stages work out: fit_values is <<>>     *)
(* until the fit of plot_calc_6bar has been applied to the data, then      *)
(* <<lin_fit>>, the pair of coefficients with the slope first, and, once   *)
(* the calculation of plot_calc_z has been applied too,                    *)
(* <<lin_fit, lin_fit_y, z_fit>> with the fitted values and the z values   *)
(* on the grid.                                                            *)
(***************************************************************************)
VARIABLES fit_values

brkf == <<fit_values>>

vars == <<brkt, brkp, brka, brkf>>

NoArray == [i \in {} |-> 0]

\* The value of an int attribute that has not been assigned yet.
Unset == 0 - 1

(***************************************************************************)
(* BrakeTest.__init__                                                      *)
(***************************************************************************)
\* Python 3 round(a / b) for ints a >= 0, b > 0: a / b is the true quotient
\* (its double is a tie only when the quotient is one), ties go to even.
RoundHalfEven(a, b) ==
    LET q == a \div b
        r == a % b
    IN  IF 2 * r < b THEN q
        ELSE IF 2 * r > b THEN q + 1
        ELSE IF q % 2 = 0 THEN q ELSE q + 1

\* Python 2 round(x) of the true quotient a / b >= 0: ties go away from zero.
RoundHalfAway(a, b) == (2 * a + b) \div (2 * b)

\* round(self.n_test/6); in Python 2 int/int floors before round() sees it
NRollOf(n, py) == IF py = 2 THEN n \div 6 ELSE RoundHalfEven(n, 6)

\* Mutant of ForceDelayOf: n_roll is multiplied by 6 instead of halved.
ForceDelayOf_Times(nr, py) == 6 * nr

\* round(self.n_roll/2); in Python 2 n_roll is the float round() returned
ForceDelayOf(nr, py) ==
    IF py = 2 THEN RoundHalfAway(nr, 2) ELSE RoundHalfEven(nr, 2)

\* __init__ returns (neither float division raises ZeroDivisionError)
Constructible(n, py) ==
    /\ n - NRollOf(n, py) - 1 # 0
    /\ ForceDelayOf(NRollOf(n, py), py) # 0

\* The largest double np.random.rand() returns, 1 - 2^-53.
RandTop == [m |-> BSub(BShl(<<1>>, 53), <<1>>), e |-> 0 - 53]

\* np.random.rand(): the double k / 2^RandBits in [0, 1), and RandTop for
\* k = 2^RandBits
Rand(k) == IF k = 2^RandBits THEN RandTop ELSE FScale(FromInt(k), 0 - RandBits)

RandDraws == 0 .. (2^RandBits - 1)

MinK(n, nr) == FDivInt(Lit(37, 10), n - nr - 1)

\* Mutant of MaxK: the division by force_delay is left out.
MaxK_NoDelay(fd) == FromInt(1)

MaxK(fd) == FDivInt(FromInt(1), fd)

PressK(n, nr, fd, r) ==
    FAdd(MinK(n, nr), FMul(Rand(r), FSub(MaxK(fd), MinK(n, nr))))

ForceK(pk, r) == FMul(pk, FAdd(FromInt(3), FMul(Rand(r), FromInt(13))))

RollRes(r) == FAdd(FromInt(2), FMul(Rand(r), FromInt(8)))

\* The object BrakeTest(n) under interpreter py, with the three draws of
\* np.random.rand() being r1, r2, r3, before generate_data.
Construct(n, py, r1, r2, r3) ==
    /\ Constructible(n, py)
    /\ python = py
    /\ n_test = n
    /\ n_roll = NRollOf(n, py)
    /\ force_delay = ForceDelayOf(NRollOf(n, py), py)
    /\ press_k = PressK(n, NRollOf(n, py), ForceDelayOf(NRollOf(n, py), py), r1)
    /\ force_k = ForceK(press_k, r2)
    /\ roll_res = RollRes(r3)
    /\ t_axis = NoArray
    /\ press_axis = NoArray
    /\ force_axis = NoArray
    /\ t_cutoff = Unset
    /\ pc = "constructed"
    /\ clip_branch = "unset"
    /\ status = Unset
    /\ has_plot = FALSE
    /\ ax1_title = ""
    /\ ax1_lines = {}
    /\ ax2_lines = {}
    /\ ax2_visible = FALSE
    /\ cease_anim = Unset
    /\ lin_fit = <<>>
    /\ keys = 0
    /\ anims = <<>>
    /\ shown = Unset
    /\ drawn = <<>>
    /\ fit_log = <<>>
    /\ stdout = <<>>
    /\ reset_outcome = "not called"
    /\ last_stop = Unset
    /\ fit_values = <<>>

(***************************************************************************)
(* BrakeTest.generate_data, in its three steps.                            *)
(***************************************************************************)
MAX_PRESS == Lit(37, 10)

MAX_FORCE == FromInt(45)

Sample(x) == [v |-> x, z |-> 0]

\* Mutant of PressRamp: the ramp runs against the time axis.
PressRamp_Reversed ==
    [i \in 0 .. n_test - 1 |->
        IF i < n_roll THEN Sample(FZero)
        ELSE Sample(FMul(press_k, FromInt(n_test - 1 - i)))]

\* self.press_axis after lines 58-60
PressRamp ==
    [i \in 0 .. n_test - 1 |->
        IF i < n_roll THEN Sample(FZero)
        ELSE Sample(FMul(press_k, FromInt(i - n_roll)))]

\* self.force_axis after lines 61-64
ForceRamp ==
    [i \in 0 .. n_test - 1 |->
        IF i < n_roll + force_delay THEN Sample(roll_res)
        ELSE Sample(FAdd(roll_res,
                         FMul(force_k, FromInt(i - (n_roll + force_delay)))))]

\* lines 55-64; t_axis[n_roll] and t_axis[n_roll+force_delay] must exist
GenerateRamps ==
    /\ pc = "constructed"
    /\ n_roll < n_test
    /\ n_roll + force_delay < n_test
    /\ t_axis' = [i \in 0 .. n_test - 1 |-> i]
    /\ press_axis' = PressRamp
    /\ force_axis' = ForceRamp
    /\ pc' = "ramps"
    /\ UNCHANGED <<python, n_test, n_roll, force_delay, press_k, force_k,
                   roll_res, t_cutoff, clip_branch>>
    /\ UNCHANGED <<brkp, brka, brkf>>

\* np.size(a[a < limit])
CountBelow(a, limit) ==
    Cardinality({i \in DOMAIN a : FLess(a[i].v, limit)})

\* Mutant of HoldFrom: the slice starts two samples late.
HoldFrom_Late(a, lim) ==
    [i \in DOMAIN a |-> IF i >= lim + 2 THEN a[lim] ELSE a[i]]

\* a[lim:] = a[lim]
HoldFrom(a, lim) == [i \in DOMAIN a |-> IF i >= lim THEN a[lim] ELSE a[i]]

\* Mutant of Branch: the outer test is < instead of <=.
Branch_Strict(press_lim, force_lim) ==
    IF press_lim < force_lim
    THEN IF press_lim # n_test THEN "press" ELSE "none"
    ELSE IF force_lim # n_test THEN "force" ELSE "none"

\* the branch of lines 69-78 that is taken: "press", "force" or "none"
Branch(press_lim, force_lim) ==
    IF press_lim <= force_lim
    THEN IF press_lim # n_test THEN "press" ELSE "none"
    ELSE IF force_lim # n_test THEN "force" ELSE "none"

\* Mutant of CutoffOf: t_cutoff starts as the last index, not the count.
CutoffOf_LastIndex(branch, press_lim, force_lim) ==
    IF branch = "press" THEN press_lim
    ELSE IF branch = "force" THEN force_lim
    ELSE n_test - 1

\* self.t_cutoff after lines 66-78
CutoffOf(branch, press_lim, force_lim) ==
    IF branch = "press" THEN press_lim
    ELSE IF branch = "force" THEN force_lim
    ELSE n_test

\* lines 66-78
ClipData ==
    /\ pc = "ramps"
    /\ LET press_lim == CountBelow(press_axis, MAX_PRESS)
           force_lim == CountBelow(force_axis, MAX_FORCE)
           branch    == Branch(press_lim, force_lim)
           cutoff    == CutoffOf(branch, press_lim, force_lim)
       IN  /\ clip_branch' = branch
           /\ t_cutoff' = cutoff
           /\ IF branch = "none"
              THEN UNCHANGED <<press_axis, force_axis>>
              ELSE /\ press_axis' = HoldFrom(press_axis, cutoff)
                   /\ force_axis' = HoldFrom(force_axis, cutoff)
    /\ pc' = "clipped"
    /\ UNCHANGED <<python, n_test, n_roll, force_delay, press_k, force_k,
                   roll_res, t_axis>>
    /\ UNCHANGED <<brkp, brka, brkf>>

\* np.random.normal(0.0, std, size)[j] / std, for the vector drawn as `seed`:
\* vector 0 stays within two standard deviations; the others lie MaxSigma
\* out, above the mean before a turning index and below it from there on.
Normal(seed, j) ==
    IF seed = 0 THEN ((j + 1) % 5) - 2
    ELSE IF j < 11 * (seed + 1) THEN MaxSigma ELSE 0 - MaxSigma

\* lines 80-85: pressure gets noise from index n_roll on, force everywhere
AddNoise ==
    /\ pc = "clipped"
    /\ \E s1, s2 \in 0 .. NoiseSeeds - 1 :
          /\ press_axis' = [i \in DOMAIN press_axis |->
                              IF i < n_roll THEN press_axis[i]
                              ELSE [press_axis[i] EXCEPT
                                       !.z = Normal(s1, i - n_roll)]]
          /\ force_axis' = [i \in DOMAIN force_axis |->
                              [force_axis[i] EXCEPT !.z = Normal(s2, i)]]
    /\ pc' = "generated"
    /\ UNCHANGED <<python, n_test, n_roll, force_delay, press_k, force_k,
                   roll_res, t_axis, t_cutoff, clip_branch>>
    /\ UNCHANGED <<brkp, brka, brkf>>

generate_data == GenerateRamps \/ ClipData \/ AddNoise

(***************************************************************************)
(* The data generator alone, for every sample count and interpreter.       *)
(***************************************************************************)
InitGen ==
    \E n \in 0 .. MaxNTest, py \in {2, 3}, r1, r2, r3 \in RandDraws :
        Construct(n, py, r1, r2, r3)

NextGen == generate_data

SpecGen == InitGen /\ [][NextGen]_vars

(***************************************************************************)
(* BrakePlotting                                                           *)
(***************************************************************************)
TitleStart == "Press any key to start animation."

TitleRaw == "Brake pressure and force measurement"

TitleRawDone == "Brake pressure and force measurement\nPress any key to continue."

Title6Bar == "Brake pressure vs. brake force"

Title6BarDone == "Brake pressure vs. brake force\nPress any key to continue."

TitleZ == "Brake pressure vs. z"

TitleZDone == "Brake pressure vs. z\nPress any key to restart animation."

\* What the figure shows: the title of ax1, the labels of the lines on ax1 and
\* on ax2, the samples the animated lines show, and the drawing steps so far.
ThePlot ==
    [title |-> ax1_title, lines1 |-> ax1_lines, lines2 |-> ax2_lines,
     shown |-> shown, drawn |-> drawn]

SetPlot(p) ==
    /\ ax1_title' = p.title
    /\ ax1_lines' = p.lines1
    /\ ax2_lines' = p.lines2
    /\ shown' = p.shown
    /\ drawn' = p.drawn

\* One drawing step `what` on the axes, made by the animation (or the set-up
\* of the stage visit) that key press number `born` started.
Draw(p, born, what) ==
    [p EXCEPT !.drawn = Append(@, [by |-> born, what |-> what])]

\* create_plot (lines 103-114), run once the data exist as in __main__:
\* a new figure with ax1 and its twin ax2, both visible and empty
create_plot ==
    /\ pc = "generated"
    /\ ~has_plot
    /\ has_plot' = TRUE
    /\ status' = 1
    /\ ax1_title' = TitleStart
    /\ ax1_lines' = {}
    /\ ax2_lines' = {}
    /\ ax2_visible' = TRUE
    /\ shown' = Unset
    /\ drawn' = <<>>
    /\ UNCHANGED <<cease_anim, lin_fit, keys>>
    /\ UNCHANGED <<anims, fit_log, stdout, reset_outcome, last_stop, brkf>>
    /\ UNCHANGED brkt

\* Mutant of ClearedPlot: cla() is left out.
ClearedPlot_Kept(p) == p

\* reset_plot, lines 121-123: both axes after cla(); len(self.axs) is 2
ClearedPlot(p) ==
    [title |-> "", lines1 |-> {}, lines2 |-> {}, shown |-> Unset,
     drawn |-> <<>>]

\* Mutant of VisibleAfterReset: the reset runs after the status assignment.
VisibleAfterReset_Late(s) == s = 4

\* reset_plot, lines 124-127: whether ax2 is visible after the reset made
\* while self.status is s
VisibleAfterReset(s) == s = 1

\* Mutant of StatusAfter: the last elif leaves the status at 4.
StatusAfter_Stuck(s) == IF s = 4 THEN 4 ELSE s + 1

\* advance_plot, lines 138-148: the status assigned when self.status is s
StatusAfter(s) ==
    CASE s = 1 -> 2
      [] s = 2 -> 3
      [] s = 3 -> 4
      [] s = 4 -> 1

\* Mutant of StageCalled: the calls of the second and third branch are swapped.
StageCalled_Swapped(s) ==
    CASE s = 1 -> "plot_raw_data"
      [] s = 2 -> "plot_calc_z"
      [] s = 3 -> "plot_calc_6bar"
      [] s = 4 -> "none"

\* advance_plot, lines 138-148: the stage function called when self.status
\* is s
StageCalled(s) ==
    CASE s = 1 -> "plot_raw_data"
      [] s = 2 -> "plot_calc_6bar"
      [] s = 3 -> "plot_calc_z"
      [] s = 4 -> "none"

\* An index that "/" computed: under Python 2 it is an int; under Python 3
\* it is a float, which NumPy refuses as an index (IndexError).  (Python 2
\* needs a NumPy that takes the float n_roll as a slice bound in line 59.)
DivIndexOK == python = 2

\* animation.FuncAnimation(fig, update_lines, frames, ...): the new object
NewAnim(stage, born, frames, second) ==
    [stage |-> stage, born |-> born, frames |-> frames, next |-> 0,
     second_time |-> second]

\* Mutant of RaisesStop: the callback only stops once the plot is idle.
RaisesStop_Idle(stage, s) == s = 1

\* update_lines, lines 180-181, 243-244, 293-294: `if (self.status != stage)`
RaisesStop(stage, s) == s # stage

\* plot_raw_data.update_lines, lines 184-202: the frame that marks the end
RawOverlay(p, born) ==
    IF t_cutoff \notin DOMAIN t_axis
    THEN Draw([p EXCEPT !.lines1 = @ \cup {"t_axis[n_roll]"}],
              born, "reference lines")
    ELSE LET q == Draw([p EXCEPT
                          !.lines1 = @ \cup {"t_axis[n_roll]",
                                            "t_axis[t_cutoff]",
                                            "t_axis[n_roll+force_delay]",
                                            "press_axis[n_roll+force_delay]"},
                          !.lines2 = @ \cup {"roll_res"}],
                       born, "reference lines")
         IN  IF DivIndexOK
             THEN [Draw(q, born, "reference labels")
                      EXCEPT !.title = TitleRawDone]
             ELSE q

\* plot_raw_data.update_lines(num), lines 182-203, once the status test has
\* passed; plt1 and plt2 are on the axes only until the next cla()
RawFrame(p, num, born, attached) ==
    LET q == IF attached THEN [p EXCEPT !.shown = num] ELSE p
    IN  IF num = n_test - 3 THEN RawOverlay(q, born) ELSE q

\* plot_calc_6bar, lines 223-228: the fit window press_axis[rel_data:t_cutoff]
FitWindow == [lo |-> n_roll + force_delay, hi |-> t_cutoff]

\* np.size(press_sort) in plot_calc_6bar
FitSize ==
    IF FitWindow.hi > FitWindow.lo THEN FitWindow.hi - FitWindow.lo ELSE 0

\* Mutant of SixBarFrame: the overlay waits for the frame after the last one.
SixBarFrame_Late(p, num, born, attached) ==
    LET q == IF attached THEN [p EXCEPT !.shown = num] ELSE p
    IN  IF num = FitSize - 2
        THEN [Draw([q EXCEPT !.lines1 = @ \cup {"Line fit (least squares)"}],
                   born, "fitted line")
                 EXCEPT !.title = Title6BarDone]
        ELSE q

\* plot_calc_6bar.update_lines(num), lines 245-256
SixBarFrame(p, num, born, attached) ==
    LET q == IF attached THEN [p EXCEPT !.shown = num] ELSE p
    IN  IF num = FitSize - 3
        THEN LET r == Draw([q EXCEPT
                              !.lines1 = @ \cup {"Line fit (least squares)"}],
                           born, "fitted line")
             IN  IF DivIndexOK
                 THEN [Draw(r, born, "fit coefficients")
                          EXCEPT !.title = Title6BarDone]
                 ELSE r
        ELSE q

\* plot_calc_z.update_lines(num), lines 295-340, with the closure variable
\* second_time as it is at the call
ZFrame(p, num, born, second) ==
    IF num = 0 /\ second = 1
    THEN Draw([p EXCEPT !.lines1 = @ \cup {"Unloaded"}],
              born, "unloaded corridor")
    ELSE IF num = 1
    THEN Draw([p EXCEPT !.lines1 = @ \cup {"Loaded"}],
              born, "loaded corridor")
    ELSE IF num = 7
    THEN Draw(p, born, "corridor edges")
    ELSE IF num = 3
    THEN [Draw([p EXCEPT !.lines1 = @ \cup {"Line fit (least squares)"}],
               born, "fitted z")
             EXCEPT !.title = TitleZDone]
    ELSE p

\* plot_raw_data (lines 150-213) on the cleared plot p, in the handler of key
\* press number born.  FuncAnimation draws frame 0 once while it is being
\* constructed; with no frame at all the StopIteration of the empty frame
\* sequence reaches the except clause.
plot_raw_data(p, born) ==
    /\ cease_anim' = 0
    /\ UNCHANGED <<lin_fit, fit_log>>
    /\ LET q == Draw([p EXCEPT !.title = TitleRaw,
                               !.lines1 = @ \cup {"Brake Pressure"},
                               !.lines2 = @ \cup {"Brake Force"},
                               !.shown = 1],
                     born, "pressure and force curves")
       IN  IF n_test - 2 <= 0
           THEN /\ SetPlot(q)
                /\ stdout' = Append(stdout, "Animation stopped.")
                /\ UNCHANGED anims
           ELSE /\ SetPlot(RawFrame(q, 0, born, TRUE))
                /\ anims' = Append(anims, NewAnim(2, born, n_test - 2, Unset))
                /\ UNCHANGED stdout

\* plot_calc_6bar (lines 215-263).  np.polyfit raises on an empty window,
\* which ends the handler before anything is drawn.
plot_calc_6bar(p, born) ==
    IF FitSize = 0
    THEN /\ SetPlot(p)
         /\ cease_anim' = 1
         /\ UNCHANGED <<lin_fit, fit_log, anims, stdout>>
    ELSE /\ lin_fit' = <<FitWindow>>
         /\ fit_log' = Append(fit_log, [op |-> "write", at |-> born])
         /\ cease_anim' = 0
         /\ LET q == Draw([p EXCEPT
                             !.title = Title6Bar,
                             !.lines1 =
                                @ \cup {"Brake Force - Rolling Resistance"},
                             !.shown = 1],
                          born, "force over pressure curve")
            IN  IF FitSize - 2 <= 0
                THEN /\ SetPlot(q)
                     /\ stdout' = Append(stdout, "Animation stopped.")
                     /\ UNCHANGED anims
                ELSE /\ SetPlot(SixBarFrame(q, 0, born, TRUE))
                     /\ anims' =
                           Append(anims, NewAnim(3, born, FitSize - 2, Unset))
                     /\ UNCHANGED stdout

\* plot_calc_z (lines 265-347).  Reading self.lin_fit before plot_calc_6bar
\* has assigned it raises AttributeError, which ends the handler.  The frame
\* FuncAnimation draws while being constructed sees second_time = 0; line 346
\* sets it to 1 before any timer callback runs.
plot_calc_z(p, born) ==
    /\ cease_anim' = 1
    /\ fit_log' = Append(fit_log, [op |-> "read", at |-> born])
    /\ UNCHANGED <<lin_fit, stdout>>
    /\ IF lin_fit = <<>>
       THEN /\ SetPlot(p)
            /\ UNCHANGED anims
       ELSE /\ SetPlot(ZFrame([p EXCEPT !.title = TitleZ], 0, born, 0))
            /\ anims' = Append(anims, NewAnim(4, born, 4, 1))

\* advance_plot (lines 131-148) with the calls it makes: reset_plot clears
\* both axes and sets the visibility of ax2 from the status it finds, then
\* the status is advanced and the stage function of the branch sets up its
\* plot and starts its animation.
advance_plot ==
    /\ has_plot
    /\ keys < MaxKeys
    /\ keys' = keys + 1
    /\ ax2_visible' = VisibleAfterReset(status)
    /\ status' = StatusAfter(status)
    /\ LET p    == ClearedPlot(ThePlot)
           call == StageCalled(status)
       IN  CASE call = "plot_raw_data"  -> plot_raw_data(p, keys + 1)
             [] call = "plot_calc_6bar" -> plot_calc_6bar(p, keys + 1)
             [] call = "plot_calc_z"    -> plot_calc_z(p, keys + 1)
             [] call = "none" ->
                   /\ SetPlot(p)
                   /\ cease_anim' = 1
                   /\ UNCHANGED <<lin_fit, fit_log, anims, stdout>>
    /\ UNCHANGED <<has_plot, reset_outcome, last_stop, brkf>>
    /\ UNCHANGED brkt

\* The timer callback of the animation whose timer expires next
\* (matplotlib's Animation._step around update_lines): it passes the next
\* frame number to update_lines; a StopIteration raised there, like the end
\* of the frame sequence (folded into the last frame here), takes the
\* callback off the timer, and otherwise the timer is set again.  The timers
\* have one period (100 ms; the model gives the 1500 ms timer of plot_calc_z
\* the same), so they expire in rotation, a new one last.
TimerCallback(a, after) ==
    /\ IF RaisesStop(a.stage, status)
       THEN /\ anims' = Tail(anims)
            /\ last_stop' = a.born
            /\ UNCHANGED <<ax1_title, ax1_lines, ax2_lines, shown, drawn>>
       ELSE /\ anims' = IF a.next + 1 >= a.frames THEN Tail(anims)
                        ELSE Append(Tail(anims), [a EXCEPT !.next = @ + 1])
            /\ SetPlot(after)
            /\ UNCHANGED last_stop
    /\ UNCHANGED <<status, has_plot, ax2_visible, cease_anim, lin_fit, keys>>
    /\ UNCHANGED <<fit_log, stdout, reset_outcome, brkf>>
    /\ UNCHANGED brkt

\* plot_raw_data.update_lines called by its timer
update_lines_raw ==
    /\ anims # <<>>
    /\ Head(anims).stage = 2
    /\ LET a == Head(anims)
       IN  TimerCallback(a, RawFrame(ThePlot, a.next, a.born, a.born = keys))

\* plot_calc_6bar.update_lines called by its timer
update_lines_6bar ==
    /\ anims # <<>>
    /\ Head(anims).stage = 3
    /\ LET a == Head(anims)
       IN  TimerCallback(a, SixBarFrame(ThePlot, a.next, a.born,
                                        a.born = keys))

\* plot_calc_z.update_lines called by its timer
update_lines_z ==
    /\ anims # <<>>
    /\ Head(anims).stage = 4
    /\ LET a == Head(anims)
       IN  TimerCallback(a, ZFrame(ThePlot, a.next, a.born, a.second_time))

\* The exception a call raises when self.axs does not exist.
MissingAttribute == "AttributeError"

\* reset_plot, line 128: the except clause
Catches(exc) == exc = "NameError"

\* reset_plot (lines 116-129) called by a client on a controller whose
\* create_plot has not run: len(self.axs) raises
reset_plot ==
    /\ ~has_plot
    /\ reset_outcome = "not called"
    /\ IF Catches(MissingAttribute)
       THEN /\ stdout' = Append(stdout, "No plot to reset")
            /\ reset_outcome' = "returned"
       ELSE /\ reset_outcome' = MissingAttribute
            /\ UNCHANGED stdout
    /\ UNCHANGED <<anims, shown, drawn, fit_log, last_stop, brkf>>
    /\ UNCHANGED <<brkt, brkp>>

(***************************************************************************)
(* The calculations of the two fitting stages, applied to the generated    *)
(* data as plot_calc_6bar (lines 223-228) and plot_calc_z (lines 272-279)  *)
(* apply them.                                                              *)
(***************************************************************************)
press_std == Lit(1, 100)

force_std == Lit(1, 10)

\* a[i] after the noise step: a[i] + np.sqrt(a[i]) * (0.0 + std * z)
Noisy(s, std) ==
    SAdd(Pos(s.v), SMul(Pos(FSqrt(s.v)), SMul(Pos(std), SInt(s.z))))

\* The element of a one-element set; {e(x) : x \in {v}} works e out with v
\* evaluated once, however often e uses it.
TheOne(S) == CHOOSE v \in S : TRUE

\* what one sample (x, y) adds to the sums of the normal equations
SumsOf(x, y) ==
    [n |-> 1, sx |-> x, sy |-> y, sxy |-> SMul(x, y), sxx |-> SMul(x, x)]

SumsAdd(l, r) ==
    [n   |-> l.n + r.n,
     sx  |-> SAdd(l.sx, r.sx),
     sy  |-> SAdd(l.sy, r.sy),
     sxy |-> SAdd(l.sxy, r.sxy),
     sxx |-> SAdd(l.sxx, r.sxx)]

\* the sums over the samples lo .. hi - 1 of the window, halves added
\* pairwise: x is the pressure, y the force less the rolling resistance
RECURSIVE FitSums(_, _)
FitSums(lo, hi) ==
    IF hi <= lo
    THEN [n |-> 0, sx |-> SZero, sy |-> SZero, sxy |-> SZero, sxx |-> SZero]
    ELSE IF hi = lo + 1
    THEN TheOne({SumsOf(x, y) :
                    x \in {Noisy(press_axis[lo], press_std)},
                    y \in {SSub(Noisy(force_axis[lo], force_std),
                                Pos(roll_res))}})
    ELSE TheOne({SumsAdd(l, r) :
                    l \in {FitSums(lo, (lo + hi) \div 2)},
                    r \in {FitSums((lo + hi) \div 2, hi)}})

\* the line <<slope, intercept>> that solves the normal equations of sums t
LineOf(t) ==
    LET n == SInt(t.n)
        k == SDiv(SSub(SMul(n, t.sxy), SMul(t.sx, t.sy)),
                  SSub(SMul(n, t.sxx), SMul(t.sx, t.sx)))
    IN  <<k, SDiv(SSub(t.sy, SMul(k, t.sx)), n)>>

\* np.polyfit(press_sort, force_sort - roll_res, 1) over the window w: the
\* least-squares line, here the solution of the normal equations worked out
\* in doubles (the order of the samples does not enter the line; NumPy's
\* solver may differ in the last bits of the two numbers).
PolyFit(w) == TheOne({LineOf(t) : t \in {FitSums(w.lo, w.hi)}})

\* np.linspace(0, 6, 4)
lin_fit_x == <<0, 2, 4, 6>>

\* np.polyval(c, x) for two coefficients: (0 * x + c[0]) * x + c[1]
PolyVal(c, x) == SAdd(SMul(c[1], x), c[2])

\* np.max of a sequence of doubles
RECURSIVE NpMax(_)
NpMax(ys) ==
    IF Len(ys) = 1 THEN ys[1]
    ELSE LET m == NpMax(Tail(ys))
         IN  IF SLess(ys[1], m) THEN m ELSE ys[1]

\* lin_fit_y / np.max(lin_fit_y) * 0.8
ZFit(ys) ==
    [i \in DOMAIN ys |-> SMul(SDiv(ys[i], NpMax(ys)), Pos(Lit(8, 10)))]

\* lines 223-228 of plot_calc_6bar
fit_6bar ==
    /\ pc = "generated"
    /\ fit_values = <<>>
    /\ FitSize > 0
    /\ fit_values' = <<PolyFit(FitWindow)>>
    /\ UNCHANGED <<brkt, brkp, brka>>

\* lines 276-279 of plot_calc_z
fit_z ==
    /\ Len(fit_values) = 1
    /\ LET ys == [i \in DOMAIN lin_fit_x |->
                    PolyVal(fit_values[1], SInt(lin_fit_x[i]))]
       IN  fit_values' = <<fit_values[1], ys, ZFit(ys)>>
    /\ UNCHANGED <<brkt, brkp, brka>>

(***************************************************************************)
(* The script, lines 351-355: BrakeTest(60), generate_data, create_plot,   *)
(* and then the key presses in the plot window.                            *)
(***************************************************************************)
MainNTest == 60

\* The draws of the script's run: the smallest and the largest double
\* np.random.rand() returns.
MainDraws == {0, 2^RandBits}

Init ==
    \E py \in {2, 3}, r1, r2, r3 \in MainDraws :
        Construct(MainNTest, py, r1, r2, r3)

Next ==
    \/ generate_data
    \/ create_plot
    \/ advance_plot
    \/ update_lines_raw
    \/ update_lines_6bar
    \/ update_lines_z

Spec == Init /\ [][Next]_vars

(***************************************************************************)
(* A client that builds the two objects as the script does and calls       *)
(* reset_plot without having called create_plot.                           *)
(***************************************************************************)
NextClient == generate_data \/ reset_plot

SpecClient == Init /\ [][NextClient]_vars

(***************************************************************************)
(* The data of the script's run and the two calculations on it.            *)
(***************************************************************************)
NextFit == generate_data \/ fit_6bar \/ fit_z

SpecFit == Init /\ [][NextFit]_vars

(***************************************************************************)
(* Properties of the data generator, checked under SpecGen.                *)
(***************************************************************************)
Min(a, b) == IF a <= b THEN a ELSE b

\* The first index at which the series a is at or above limit, n_test if none.
FirstAtOrAbove(a, limit) ==
    LET hits == {i \in DOMAIN a : ~FLess(a[i].v, limit)}
    IN  IF hits = {} THEN n_test
        ELSE CHOOSE i \in hits : \A j \in hits : i <= j

\* The series a held at its value at index c from c on.
ClippedAt(a, c) == [i \in DOMAIN a |-> a[IF i < c THEN i ELSE c]]

\* C2: when a noise-free series reaches its maximum, the cut-off step sets
\* t_cutoff to the smaller of the two first-crossing indices, clips both
\* series at that index, and takes the pressure branch when the two indices
\* are equal (the force branch only when force crosses strictly first).
C2_CutoffAtFirstCrossing ==
    [][(pc = "ramps" /\ pc' = "clipped") =>
          LET pl == FirstAtOrAbove(press_axis, MAX_PRESS)
              fl == FirstAtOrAbove(force_axis, MAX_FORCE)
          IN  (pl < n_test \/ fl < n_test) =>
                 /\ t_cutoff' = Min(pl, fl)
                 /\ press_axis' = ClippedAt(press_axis, Min(pl, fl))
                 /\ force_axis' = ClippedAt(force_axis, Min(pl, fl))
                 /\ clip_branch' = IF pl <= fl THEN "press" ELSE "force"]_vars

\* Witness of C2: both series first reach their maximum at the same index and
\* the pressure branch has clipped them there.
C2_Witness ==
    /\ pc = "clipped"
    /\ clip_branch = "press"
    /\ t_cutoff > 0
    /\ FLess(press_axis[t_cutoff - 1].v, MAX_PRESS)
    /\ FLess(force_axis[t_cutoff - 1].v, MAX_FORCE)
    /\ ~FLess(press_axis[t_cutoff].v, MAX_PRESS)
    /\ ~FLess(force_axis[t_cutoff].v, MAX_FORCE)

\* C3 (as claimed): after the cut-off step and before the noise step no
\* pressure sample exceeds MAX_PRESS.
C3_PressureWithinMax ==
    pc = "clipped" =>
        \A i \in DOMAIN press_axis : FLeq(press_axis[i].v, MAX_PRESS)

\* C4: after the cut-off step and before the noise step both series are flat
\* from index t_cutoff on.
C4_FlatBeyondCutoff ==
    pc = "clipped" =>
        \A i \in DOMAIN press_axis :
            i >= t_cutoff =>
                /\ press_axis[i] = press_axis[t_cutoff]
                /\ force_axis[i] = force_axis[t_cutoff]

\* Witness of C4: the force branch clipped the series with at least two
\* samples beyond the cut-off index.
C4_Witness ==
    /\ pc = "clipped"
    /\ clip_branch = "force"
    /\ t_cutoff + 2 < n_test

\* C5: after the cut-off step 0 <= t_cutoff <= n_test, and when neither
\* noise-free series reaches its maximum the step sets t_cutoff to n_test and
\* changes no sample.
C5_CutoffInRange ==
    /\ [](pc \in {"clipped", "generated"} => t_cutoff \in 0 .. n_test)
    /\ [][(/\ pc = "ramps"
           /\ pc' = "clipped"
           /\ FirstAtOrAbove(press_axis, MAX_PRESS) = n_test
           /\ FirstAtOrAbove(force_axis, MAX_FORCE) = n_test)
          => (/\ t_cutoff' = n_test
              /\ press_axis' = press_axis
              /\ force_axis' = force_axis)]_vars

\* Witness of C5: the cut-off step ran on series that never reach their
\* maximum.
C5_Witness ==
    /\ pc = "clipped"
    /\ t_cutoff = n_test
    /\ \A i \in DOMAIN press_axis :
          /\ FLess(press_axis[i].v, MAX_PRESS)
          /\ FLess(force_axis[i].v, MAX_FORCE)

\* C6: for every sample count the constructor accepts, force_delay is less
\* than n_test - n_roll, so n_roll + force_delay is an index of the series.
C6_ForceDelayInsideSeries ==
    /\ force_delay < n_test - n_roll
    /\ n_roll + force_delay \in 0 .. n_test - 1

\* Witness of C6: the ramps were generated for the smallest sample count the
\* constructor accepts (6, under Python 2), reading index n_roll+force_delay.
C6_Witness ==
    /\ pc = "ramps"
    /\ n_test = 6
    /\ n_roll + force_delay \in DOMAIN force_axis
    /\ force_axis[n_roll + force_delay] = Sample(roll_res)

\* C7: the noise-free series are non-decreasing over 0 .. t_cutoff: pressure
\* is 0 through the rolling-resistance window and ramps with slope
\* press_k > 0, force is roll_res up to index n_roll + force_delay and ramps
\* with slope force_k > 0.
C7_MonotoneUpToCutoff ==
    pc = "clipped" =>
        /\ FLess(FZero, press_k)
        /\ FLess(FZero, force_k)
        /\ \A i \in DOMAIN press_axis :
              /\ i <= n_roll => press_axis[i].v = FZero
              /\ i <= n_roll + force_delay => force_axis[i].v = roll_res
              /\ (i + 1 \in DOMAIN press_axis /\ i + 1 <= t_cutoff) =>
                    /\ FLeq(press_axis[i].v, press_axis[i + 1].v)
                    /\ FLeq(force_axis[i].v, force_axis[i + 1].v)

\* Witness of C7: a clipped series in which both ramps rise before the
\* cut-off.
C7_Witness ==
    /\ pc = "clipped"
    /\ t_cutoff > n_roll + force_delay + 1
    /\ t_cutoff < n_test
    /\ FLess(press_axis[n_roll].v, press_axis[t_cutoff].v)
    /\ FLess(force_axis[n_roll + force_delay].v, force_axis[t_cutoff].v)

\* C8 (as claimed): with press_k at least 3.7/(n_test - n_roll - 1) the
\* noise-free pressure reaches 3.7 by the last sample, so that after the
\* cut-off step t_cutoff < n_test and t_axis[t_cutoff] exists.
C8_CutoffBeforeEnd ==
    (pc = "clipped" /\ FLeq(MinK(n_test, n_roll), press_k)) =>
        /\ t_cutoff < n_test
        /\ t_cutoff \in DOMAIN t_axis

\* C9: the wake-up pressure, the noise-free pressure at index
\* n_roll + force_delay, is press_k * force_delay and lies between 0.2 and 1.0.
C9_WakeUpPressureRange ==
    pc = "ramps" =>
        LET p_w == press_axis[n_roll + force_delay].v
        IN  /\ p_w = FMul(press_k, FromInt(force_delay))
            /\ FLeq(Lit(2, 10), p_w)
            /\ FLeq(p_w, FromInt(1))

\* Witness of C9: ramps generated with a draw that puts the wake-up pressure
\* in the upper half of its range.
C9_Witness ==
    /\ pc = "ramps"
    /\ force_delay >= 1
    /\ FLess(Lit(6, 10), press_axis[n_roll + force_delay].v)

(***************************************************************************)
(* Properties of the plot controller, checked under Spec.                  *)
(***************************************************************************)
\* The title and lines the stage function of status s sets up (none for 1).
StageStarted(s) ==
    CASE s = 1 -> /\ ax1_title \notin {TitleRaw, Title6Bar, TitleZ}
                  /\ ax1_lines = {}
                  /\ ax2_lines = {}
      [] s = 2 -> /\ ax1_title = TitleRaw
                  /\ ax1_lines = {"Brake Pressure"}
                  /\ ax2_lines = {"Brake Force"}
      [] s = 3 -> /\ ax1_title = Title6Bar
                  /\ ax1_lines = {"Brake Force - Rolling Resistance"}
                  /\ lin_fit # <<>>
      [] s = 4 -> ax1_title = TitleZ

\* C1: create_plot leaves status 1; every key press moves status one step
\* along 1 -> 2 -> 3 -> 4 -> 1 and starts the stage of the status it enters;
\* status is always one of 1, 2, 3, 4.
C1_StatusCycle ==
    /\ [](has_plot => status \in 1 .. 4)
    /\ [][(~has_plot /\ has_plot') => status' = 1]_vars
    /\ [][(keys' = keys + 1) =>
             /\ status' = (status % 4) + 1
             /\ StageStarted(status)']_vars

\* Witness of C1: the fifth key press has taken the cycle through 4 -> 1 and
\* on to status 2 again.
C1_Witness ==
    /\ keys = 5
    /\ status = 2
    /\ StageStarted(2)

\* C10 (as claimed): whenever status is 1 the plot is a blank dual-axis plot
\* (both axes visible, nothing drawn) showing the instructional title.
C10_IdlePlotBlankWithTitle ==
    (has_plot /\ status = 1) =>
        /\ ax1_lines = {}
        /\ ax2_lines = {}
        /\ ax2_visible
        /\ ax1_title = TitleStart

\* The animation that key press number born started has its timer running.
Running(born) == \E i \in DOMAIN anims : anims[i].born = born

\* C11: the z-ratio stage never reads lin_fit before it has been written:
\* every read is directly preceded by the one write of the 6-bar stage
\* visited by the key press before, lin_fit exists at the read, and lin_fit
\* changes in no step but that write.
C11_FitWrittenBeforeRead ==
    /\ [](\A i \in DOMAIN fit_log :
             fit_log[i].op = "read" =>
                /\ i > 1
                /\ fit_log[i - 1].op = "write"
                /\ fit_log[i - 1].at = fit_log[i].at - 1
                /\ \A j \in DOMAIN fit_log :
                      (fit_log[j].op = "write"
                         /\ fit_log[j].at = fit_log[i - 1].at) => j = i - 1)
    /\ [][(/\ Len(fit_log') > Len(fit_log)
           /\ fit_log'[Len(fit_log')].op = "read")
          => (/\ lin_fit # <<>>
              /\ lin_fit' = lin_fit
              /\ status' = 4)]_vars
    /\ [][lin_fit' # lin_fit
          => (/\ Len(fit_log') = Len(fit_log) + 1
              /\ fit_log'[Len(fit_log')].op = "write"
              /\ status' = 3)]_vars

\* Witness of C11: the z-ratio stage has read the fit that the 6-bar stage
\* wrote one key press earlier.
C11_Witness ==
    /\ status = 4
    /\ lin_fit # <<>>
    /\ fit_log = <<[op |-> "write", at |-> 2], [op |-> "read", at |-> 3]>>
    /\ ax1_title = TitleZ

\* C12: a frame callback invoked while status differs from its stage changes
\* nothing on the plot and is taken off its timer; whatever is drawn later is
\* drawn by a key press handler or by an animation that is still running.
C12_StaleCallbackStops ==
    /\ [][(/\ keys' = keys
           /\ anims # <<>>
           /\ anims' # anims
           /\ Head(anims).stage # status)
          => (/\ ThePlot' = ThePlot
              /\ ax2_visible' = ax2_visible
              /\ \A i \in DOMAIN anims' : anims'[i].born # Head(anims).born
              /\ last_stop' = Head(anims).born)]_vars
    /\ [][\A i \in DOMAIN drawn' :
             (i > Len(drawn) \/ drawn'[i] # drawn[i]) =>
                (drawn'[i].by = keys' \/ Running(drawn'[i].by))]_vars

\* Witness of C12: the raw-data animation was called in the 6-bar stage and
\* stopped, and the 6-bar animation goes on.
C12_Witness ==
    /\ keys = 2
    /\ status = 3
    /\ last_stop = 1
    /\ ~Running(1)
    /\ Running(2)

(***************************************************************************)
(* The calculations of the fitting stages, checked under SpecFit.          *)
(***************************************************************************)
\* C13 (as claimed): the z value at 6 bar is exactly 0.8, the fitted value at
\* 6 bar being the largest one on the grid, for every pair of coefficients
\* the fit of the 6-bar stage returns.
C13_ZAtSixBarIsTarget ==
    Len(fit_values) = 3 =>
        /\ fit_values[2][4] = NpMax(fit_values[2])
        /\ fit_values[3][4] = Pos(Lit(8, 10))

(***************************************************************************)
(* reset_plot called by a client, checked under SpecClient.                *)
(***************************************************************************)
\* C14 (as claimed): a call of reset_plot on a controller without a plot
\* returns, having printed "No plot to reset" and changed nothing.
C14_ResetWithoutPlotIsCaught ==
    reset_outcome # "not called" =>
        /\ reset_outcome = "returned"
        /\ stdout = <<"No plot to reset">>
        /\ ~has_plot
        /\ status = Unset

(***************************************************************************)
(* Further properties of the plot controller, checked under Spec.          *)
(***************************************************************************)
\* C15: after every key press the axes hold only what the set-up of the new
\* stage drew: reset_plot has cleared whatever the stage before had drawn.
C15_AxesClearedOnKeyPress ==
    [][keys' = keys + 1 =>
         /\ \A i \in DOMAIN drawn' : drawn'[i].by = keys'
         /\ Len(drawn') <= 1
         /\ ax1_lines' = (CASE status' = 2 -> {"Brake Pressure"}
                            [] status' = 3 ->
                                  {"Brake Force - Rolling Resistance"}
                            [] OTHER -> {})
         /\ ax2_lines' = (IF status' = 2 THEN {"Brake Force"} ELSE {})
         /\ shown' \in {Unset, 0}
         /\ ax1_title' \in {"", TitleRaw, Title6Bar, TitleZ}]_vars

\* Witness of C15: the second key press has replaced the raw-data plot, with
\* its two curves, by the set-up of the 6-bar stage.
C15_Witness ==
    /\ keys = 2
    /\ status = 3
    /\ drawn = <<[by |-> 2, what |-> "force over pressure curve"]>>
    /\ ax1_lines = {"Brake Force - Rolling Resistance"}
    /\ ax2_lines = {}

\* The drawing steps of the z-ratio stage, in order.
ZSteps == <<"unloaded corridor", "loaded corridor", "fitted z">>

\* C16 (as claimed): during a visit of the z-ratio stage the plot holds the
\* unloaded corridor once frame 0 has run, then the loaded corridor once
\* frame 1 has run, then the fitted z once frame 3 has run, each once and in
\* this order (the call made with second_time = 0 draws nothing); the fitted
\* z comes with the closing title and nothing is drawn after it.
C16_ZStageOrder ==
    (status = 4 /\ lin_fit # <<>>) =>
        LET pos == IF Running(keys)
                   THEN anims[CHOOSE i \in DOMAIN anims :
                                 anims[i].born = keys].next
                   ELSE 4
            k   == CASE pos = 0 -> 0
                     [] pos = 1 -> 1
                     [] pos \in {2, 3} -> 2
                     [] OTHER -> 3
        IN  /\ Len(drawn) = k
            /\ \A i \in 1 .. k : drawn[i] = [by |-> keys, what |-> ZSteps[i]]
            /\ ax1_title = (IF k = 3 THEN TitleZDone ELSE TitleZ)
            /\ ax1_lines = (CASE k = 0 -> {}
                              [] k = 1 -> {"Unloaded"}
                              [] k = 2 -> {"Unloaded", "Loaded"}
                              [] OTHER -> {"Unloaded", "Loaded",
                                           "Line fit (least squares)"})

\* C17 (as claimed): whatever is on the axes was drawn in the current stage
\* visit: no animation of an earlier visit changes the plot.
C17_OnlyCurrentVisitDraws ==
    \A i \in DOMAIN drawn : drawn[i].by = keys

\* C18: with 60 samples the fit window has at least 3 samples, the 6-bar
\* animation has size - 2 >= 1 frames, and a visit of the 6-bar stage whose
\* animation has run out has overlaid the fitted line.
C18_FitWindowHasFrames ==
    /\ pc \in {"clipped", "generated"} => FitSize >= 3
    /\ \A i \in DOMAIN anims :
          anims[i].stage = 3 =>
             (anims[i].frames = FitSize - 2 /\ anims[i].frames >= 1)
    /\ (status = 3 /\ ~Running(keys)) =>
          \E i \in DOMAIN drawn :
             drawn[i] = [by |-> keys, what |-> "fitted line"]

\* Witness of C18: the fitted line is overlaid in a run whose fit window is
\* the shortest the draws allow (11 samples, every draw at its largest).
C18_Witness ==
    /\ status = 3
    /\ FitSize = 11
    /\ ~Running(keys)
    /\ \E i \in DOMAIN drawn : drawn[i].what = "fitted line"

\* C19: after every key press ax2 is visible exactly when the new status is
\* 2, because reset_plot looks at the status before it is advanced: visible
\* after 1 -> 2 only.
C19_SecondAxisOnlyInRawStage ==
    /\ [](keys > 0 => (ax2_visible <=> status = 2))
    /\ [][keys' = keys + 1 => (ax2_visible' <=> status = 1)]_vars

\* Witness of C19: ax2 is visible again in the second raw-data visit, after
\* having been hidden in the three statuses before.
C19_Witness ==
    /\ keys = 5
    /\ status = 2
    /\ ax2_visible
====
